---- MODULE Spec2Model ----
(***************************************************************************)
(* Chitchat: the client-side synchronization layer.                        *)
(*                                                                         *)
(* The module models the chats store (src/src/stores/chats.ts) together    *)
(* with the real-time service it sits on (subscribeToChats,               *)
(* subscribeToUserPresence and subscribeToMessages of the messaging        *)
(* service).  The remote store is the environment: it delivers index       *)
(* snapshots, per-conversation snapshots, presence snapshots and message   *)
(* snapshots to every listener that is still registered, in any order and  *)
(* with any content of the bounded domains below.  SpecRace adds callbacks *)
(* that were dispatched before their listener was released.  SpecShutdown  *)
(* adds the application shell (src/src/App.tsx): login, sign-out and the   *)
(* close-requested handler, with the user's own presence (initUserPresence *)
(* and cleanupUserPresence) and the connectivity of the transport.         *)
(***************************************************************************)
EXTENDS Integers, Sequences, FiniteSets, TLC

\* ------------------------------------------------------------------ bounds

\* Timestamps (updatedAt) range over 1..MaxTime; 0 stands for "no entry".
MaxTime == 2
\* Closures created by subscribeToChats that can be alive at the same time.
MaxSubs == 2
\* initChatsListener calls suspended at `await initNotifications()`.
MaxPending == 1
\* The same, where overlapping calls of initChatsListener are exercised.
MaxOverlap == 2
\* Message-stream listeners that can be registered at the same time.
MaxMsgSubs == 2
\* Messages in one raw message snapshot, where the sort is exercised.
MaxMsgs == 3
\* Promise chains of connect events that can be pending at the same time.
MaxChains == 2

\* ------------------------------------------------------------------ domains

\* Conversation ids: conv100 and conv200 of the scenarios, ordered as numbers.
ChatIds == {100, 200}
NoChat == 0
SubIds == 1..MaxSubs
NoSub == 0
MsgSubIds == 1..MaxMsgSubs

Self == "alice"
Contacts == {"bob", "carol"}
\* loggedInUserId = null
NoUser == "null"
\* lastMessageSenderId absent from the record
NoSender == "undefined"
Times == 1..MaxTime

\* Display name a participant is stored under (participantNames, displayName).
NameOf(u) == CASE u = "alice" -> "Alice"
               [] u = "bob" -> "Bob"
               [] u = "carol" -> "Carol"
               [] OTHER -> "Someone"

\* A conversation record as the writers of this repository produce it:
\* createChat writes lastMessage '' and no sender, sendMessage writes the
\* trimmed non-empty text together with the sender id.
ChatRecord(c, t, s, P) ==
  [id |-> c, updatedAt |-> t, lastMessageSenderId |-> s,
   lastMessage |-> IF s = NoSender THEN "" ELSE "hi",
   participants |-> P]

\* Records delivered while the notification decision is exercised: every
\* timestamp, every sender, the direct chat alice-bob.
NotifyDocs(c) ==
  {ChatRecord(c, t, s, {Self, "bob"}) : t \in Times, s \in {NoSender, Self, "bob"}}

\* Records delivered while presence tracking is exercised: a conversation with
\* either contact as the counterpart, no message yet.
PresenceDocs(c) ==
  {ChatRecord(c, 1, NoSender, {Self, u}) : u \in Contacts}

\* chatSnapshot.exists() = false
NoDoc == [id |-> NoChat]

\* Records delivered while the life cycle of the listeners is exercised: one
\* record per conversation, as createChat leaves it.
LifecycleDocs(c) == {ChatRecord(c, 1, NoSender, {Self, "bob"})}

\* Presence payloads: the record is missing, or carries isOnline.
PresenceRecs == {"null", "online", "offline"}

\* A message of conversation c; timestamp NoTime stands for a missing one.
NoTime == -1
Msg(c, i, t) == [chat |-> c, id |-> i, timestamp |-> t]

\* Raw message snapshots of conversation c: none yet, or two messages that
\* the transport lists newest first.
\* A conversation record without a numeric updatedAt and without participants.
MalformedDocs(c) ==
  {[id |-> c, updatedAt |-> NoTime, lastMessageSenderId |-> NoSender,
    lastMessage |-> "", participants |-> {}]}

\* Records whose last message is from bob: each newer one is notified.
SinkDocs(c) == {ChatRecord(c, t, "bob", {Self, "bob"}) : t \in Times}

MessageLists(c) == {<<>>, <<Msg(c, 1, 2), Msg(c, 2, 1)>>}

\* Raw message snapshots of conversation c with up to MaxMsgs children in
\* key order, each with any timestamp or none.
RawMessages(c) ==
  UNION {{[i \in 1..n |-> Msg(c, i, ts[i])] : ts \in [1..n -> Times \cup {NoTime}]} :
         n \in 0..MaxMsgs}

\* ------------------------------------------------------------------ state

VARIABLES
  \* chats store signals (chats.ts 24-30)
  chats,                      \* published conversation list
  currentChatId,
  connectionState,
  otherUserPresence,          \* contact -> "absent" | "online" | "offline"
  \* chats store module variables (chats.ts 68-78)
  chatsUnsubscribe,           \* the subscribeToChats closure it would release
  presenceUnsubscribes,       \* contacts with an open presence subscription
  loggedInUserId,
  notifiedMessageTimestamps,  \* conversation -> last notified timestamp, 0 = no entry
  isInitialChatsLoad,
  presenceInitialStates,      \* contacts whose first presence record was seen
  messages,                   \* published message list
  loadingMessages,
  messagesUnsubscribe,        \* the message listener it would release
  \* control state
  pendingInit,                \* initChatsListener calls suspended at the await
  subs,                       \* the closures of subscribeToChats
  msgSubs,                    \* the listeners of subscribeToMessages
  inflight,                   \* a callback dispatched to a listener, not yet run
  \* observation: what the last step was and what it handed to the sinks,
  \* which <<conversation, updatedAt>> pairs the callback has processed since
  \* the listener was last set up or cleaned up, and, per contact, the first
  \* presence payload since its subscription opened ("none" before it,
  \* "later" from the second payload on)
  evt,
  out,
  processed,
  firstSeen,
  \* auth store signal (App.tsx 35, 87, 97): the logged-in user or none
  authUser,
  \* presence service (part_006 309): the .info/connected listener is registered
  presenceCleanup,
  \* transport and server: the client is connected; the value the connectivity
  \* listener was last called with ("none" | "true" | "false"); the server holds
  \* the disconnect fallback for users/Self; the isOnline field of users/Self;
  \* the promise chains started by connect events, by stage
  connected,
  connSeen,
  onDisconnectArmed,
  selfOnline,
  presenceOps,
  \* the requests sent to the server and not yet answered, oldest first
  serverQueue,
  \* position of handleSignOut and of the close-requested handler
  signOutPc,
  closePc,
  \* environment: the notification and sound sinks fail when called
  sinksFail,
  \* database (part_006 171-223, 232-275): the records under chats/, the index
  \* userChats/<user>, and the calls of createChat and createGroupChat by
  \* position
  dbChats,
  dbUserChats,
  createCalls,
  \* MessageView (part_002 19-27): the isTyping signal, the typing timer is
  \* armed, the sendState signal, the position of sendMessage, the draft
  \* newMessage is non-empty; the typing/<Self> flag of the selected
  \* conversation's record; the keystrokes made so far
  isTyping,
  typingTimeout,
  sendState,
  sendPc,
  newMessage,
  typingFlag,
  keystrokes

vars == <<chats, currentChatId, connectionState, otherUserPresence,
          chatsUnsubscribe, presenceUnsubscribes, loggedInUserId,
          notifiedMessageTimestamps, isInitialChatsLoad, presenceInitialStates,
          messages, loadingMessages, messagesUnsubscribe,
          pendingInit, subs, msgSubs, inflight, evt, out, processed, firstSeen,
          authUser, presenceCleanup, connected, connSeen, onDisconnectArmed,
          selfOnline, presenceOps, serverQueue, signOutPc, closePc, sinksFail,
          dbChats, dbUserChats, createCalls,
          isTyping, typingTimeout, sendState, sendPc, newMessage, typingFlag,
          keystrokes>>

dbVars == <<dbChats, dbUserChats, createCalls>>

typingVars == <<isTyping, typingTimeout, sendState, sendPc, newMessage,
                typingFlag, keystrokes>>

viewVars == <<dbVars, typingVars>>

appVars == <<authUser, presenceCleanup, connected, connSeen, onDisconnectArmed,
             selfOnline, presenceOps, serverQueue, signOutPc, closePc, sinksFail,
             viewVars>>

storeVars == <<chats, connectionState, otherUserPresence, presenceUnsubscribes,
               notifiedMessageTimestamps, isInitialChatsLoad, presenceInitialStates,
               processed, firstSeen>>

msgVars == <<messages, loadingMessages, messagesUnsubscribe, msgSubs>>

\* A closure of subscribeToChats: the index listener, the fanned-out
\* per-conversation listeners and the cache.  chatData is a JavaScript Map:
\* it iterates in insertion order, so it is kept as a sequence.  loading holds
\* the ids of the first index snapshot that have not delivered a record yet,
\* listeners the number of onValue listeners registered per conversation.
ClosedSub == [open |-> FALSE, index |-> FALSE, indexed |-> FALSE,
              chatSubscriptions |-> {}, chatData |-> <<>>, loading |-> {},
              listeners |-> [c \in ChatIds |-> 0]]
FreshSub == [ClosedSub EXCEPT !.open = TRUE, !.index = TRUE]

\* A listener of subscribeToMessages; delivered records that its first
\* snapshot has been handed to the store.
ClosedMsgSub == [open |-> FALSE, chat |-> NoChat, delivered |-> FALSE]

\* A dispatched callback: the listener it was dispatched to and its payload.
NoCallback == [kind |-> "none", sub |-> NoSub, chat |-> NoChat, doc |-> [id |-> NoChat],
               user |-> "null", rec |-> "null", msub |-> NoSub, msgs |-> <<>>]

NoEvt == [kind |-> "none", sub |-> NoSub, ids |-> {}, chat |-> NoChat,
          initial |-> FALSE, active |-> FALSE, newer |-> FALSE, dup |-> FALSE,
          user |-> NoUser, rec |-> "null", seen |-> FALSE, prev |-> "absent",
          first |-> "none", raw |-> <<>>, failed |-> FALSE]

\* ------------------------------------------------------------------ helpers

Range(s) == {s[i] : i \in 1..Len(s)}
Ids(s) == {s[i].id : i \in 1..Len(s)}

\* typeof updatedAt === 'number' ? updatedAt : fallback
TimeOf(chat) == IF chat.updatedAt = NoTime THEN 0 ELSE chat.updatedAt

\* The timestamp the initial load records: Date.now(), later than every
\* record, when updatedAt is not a number.
Now == MaxTime + 1
InitialTimestamp(chat) == IF chat.updatedAt = NoTime THEN Now ELSE chat.updatedAt

\* Map.set: an existing key keeps its position, a new key goes last.
MapSet(data, rec) ==
  IF rec.id \in Ids(data)
    THEN [i \in 1..Len(data) |-> IF data[i].id = rec.id THEN rec ELSE data[i]]
    ELSE Append(data, rec)

\* Map.delete
MapDelete(data, c) == SelectSeq(data, LAMBDA r : r.id # c)

\* A comparator that lets a newer-or-equal record overtake: ties get reversed.
KeepsBeforeStrict(a, b) == TimeOf(a) > TimeOf(b)

\* The comparator of notifyUpdate is timeB - timeA: a goes before b unless b is
\* strictly newer.
KeepsBefore(a, b) == TimeOf(a) >= TimeOf(b)

\* Array.prototype.sort is stable: x, coming after everything in `sorted`,
\* stays behind every element it does not have to overtake.
RECURSIVE InsertSorted(_, _)
InsertSorted(sorted, x) ==
  IF sorted = <<>> THEN <<x>>
  ELSE IF KeepsBefore(sorted[Len(sorted)], x) THEN Append(sorted, x)
  ELSE Append(InsertSorted(SubSeq(sorted, 1, Len(sorted) - 1), x), sorted[Len(sorted)])

RECURSIVE SortChats(_)
SortChats(data) ==
  IF data = <<>> THEN <<>>
  ELSE InsertSorted(SortChats(SubSeq(data, 1, Len(data) - 1)), data[Len(data)])

\* ------------------------------------------------------------------ sinks

NewMessage(c, name, text) ==
  [type |-> "NewMessage", chat |-> c, senderName |-> name, text |-> text]
PlayReceived(c) ==
  [type |-> "PlayReceived", chat |-> c, senderName |-> "", text |-> ""]
ContactOnline(name) ==
  [type |-> "ContactOnline", chat |-> NoChat, senderName |-> name, text |-> ""]
ContactOffline(name) ==
  [type |-> "ContactOffline", chat |-> NoChat, senderName |-> name, text |-> ""]

\* ------------------------------------------------------------------ chats.ts

\* senderName of initChatsListener: participantNames, then the cached presence
\* record, then 'Someone'.
SenderName(chat) ==
  LET s == chat.lastMessageSenderId IN
  IF s \in chat.participants THEN NameOf(s)
  ELSE IF s \in Contacts /\ otherUserPresence[s] # "absent" THEN NameOf(s)
  ELSE "Someone"

\* Variants of the tests below with one slip each: >= for >, the comparison
\* with loggedInUserId left out, the window state left out.
IsNewerOrSameMessage(chat) == TimeOf(chat) >= notifiedMessageTimestamps[chat.id]
IsFromAnyone(chat) == chat.lastMessageSenderId # NoUser
IsSelectedChat(chat, active) == chat.id = currentChatId

\* The four tests of the per-conversation loop.
IsNewerMessage(chat) == TimeOf(chat) > notifiedMessageTimestamps[chat.id]
HasSenderId(chat) == chat.lastMessageSenderId # NoSender
IsFromOther(chat) == chat.lastMessageSenderId # loggedInUserId
IsViewingChat(chat, active) == chat.id = currentChatId /\ active

\* What the loop does with one conversation of a non-initial snapshot.
Decision(chat, active) ==
  IF /\ IsNewerMessage(chat) /\ HasSenderId(chat) /\ IsFromOther(chat)
     /\ ~IsViewingChat(chat, active) /\ chat.lastMessage # ""
    THEN "notify"
  ELSE IF IsNewerMessage(chat)
    THEN IF IsViewingChat(chat, active) /\ IsFromOther(chat) THEN "sound" ELSE "advance"
  ELSE "none"

\* Outputs without the sound of the "viewing" branch.
OutputsSilentWhenViewing(chat, active) ==
  IF Decision(chat, active) = "notify"
    THEN <<NewMessage(chat.id, SenderName(chat), chat.lastMessage), PlayReceived(chat.id)>>
    ELSE <<>>

Outputs(chat, active) ==
  CASE Decision(chat, active) = "notify" ->
         <<NewMessage(chat.id, SenderName(chat), chat.lastMessage), PlayReceived(chat.id)>>
    [] Decision(chat, active) = "sound" -> <<PlayReceived(chat.id)>>
    [] OTHER -> <<>>

RECURSIVE Emitted(_, _)
Emitted(list, active) ==
  IF list = <<>> THEN <<>>
  ELSE Outputs(list[1], active) \o Emitted(SubSeq(list, 2, Len(list)), active)

ChatOf(list, c) == CHOOSE r \in Range(list) : r.id = c

\* notifiedMessageTimestamps after the callback of initChatsListener ran.
\* A callback that records the timestamp of every record it is given.
RecordedTimestampsAlways(newChats, active) ==
  [c \in ChatIds |->
     IF c \notin Ids(newChats) THEN notifiedMessageTimestamps[c]
     ELSE IF isInitialChatsLoad THEN InitialTimestamp(ChatOf(newChats, c))
     ELSE TimeOf(ChatOf(newChats, c))]

RecordedTimestamps(newChats, active) ==
  [c \in ChatIds |->
     IF c \notin Ids(newChats) THEN notifiedMessageTimestamps[c]
     ELSE IF isInitialChatsLoad THEN InitialTimestamp(ChatOf(newChats, c))
     ELSE IF Decision(ChatOf(newChats, c), active) # "none" THEN TimeOf(ChatOf(newChats, c))
     ELSE notifiedMessageTimestamps[c]]

OtherUserIds(chatList) ==
  UNION {chatList[i].participants : i \in 1..Len(chatList)} \ {Self}

\* updatePresenceSubscriptions without presenceInitialStates.delete.
UpdatePresenceKeepsSeen(chatList) ==
  /\ presenceUnsubscribes' = OtherUserIds(chatList)
  /\ presenceInitialStates' = presenceInitialStates
  /\ firstSeen' = [u \in Contacts |->
       IF u \in presenceUnsubscribes \cap OtherUserIds(chatList)
         THEN firstSeen[u] ELSE "none"]
  /\ UNCHANGED otherUserPresence

\* updatePresenceSubscriptions: close the subscriptions of contacts that left,
\* open one for each new contact.
UpdatePresenceSubscriptions(chatList) ==
  /\ presenceUnsubscribes' = OtherUserIds(chatList)
  /\ presenceInitialStates' =
       presenceInitialStates \ (presenceUnsubscribes \ OtherUserIds(chatList))
  /\ firstSeen' = [u \in Contacts |->
       IF u \in presenceUnsubscribes \cap OtherUserIds(chatList)
         THEN firstSeen[u] ELSE "none"]
  /\ UNCHANGED otherUserPresence

\* The callback initChatsListener hands to subscribeToChats.
\* A callback that a failing sink interrupts: the intents are handed over
\* and nothing after them runs.
OnChatsStopsOnFailure(newChats, active) ==
  IF sinksFail /\ ~isInitialChatsLoad /\ Emitted(newChats, active) # <<>>
    THEN /\ out' = Emitted(newChats, active)
         /\ UNCHANGED storeVars
    ELSE /\ notifiedMessageTimestamps' = RecordedTimestamps(newChats, active)
         /\ out' = IF isInitialChatsLoad THEN <<>> ELSE Emitted(newChats, active)
         /\ isInitialChatsLoad' = FALSE
         /\ chats' = newChats
         /\ connectionState' = "connected"
         /\ processed' = processed \cup {<<newChats[i].id, TimeOf(newChats[i])>> : i \in 1..Len(newChats)}
         /\ UpdatePresenceSubscriptions(newChats)

OnChats(newChats, active) ==
  /\ notifiedMessageTimestamps' = RecordedTimestamps(newChats, active)
  /\ out' = IF isInitialChatsLoad THEN <<>> ELSE Emitted(newChats, active)
  /\ isInitialChatsLoad' = FALSE
  /\ chats' = newChats
  /\ connectionState' = "connected"
  /\ processed' = processed \cup {<<newChats[i].id, TimeOf(newChats[i])>> : i \in 1..Len(newChats)}
  /\ UpdatePresenceSubscriptions(newChats)

\* What cleanupChatsListener releases and empties.
ReleaseListeners ==
  /\ subs' = [s \in SubIds |-> IF s = chatsUnsubscribe THEN ClosedSub ELSE subs[s]]
  /\ chatsUnsubscribe' = NoSub
  /\ presenceUnsubscribes' = {}
  /\ presenceInitialStates' = {}
  /\ otherUserPresence' = [u \in Contacts |-> "absent"]
  /\ firstSeen' = [u \in Contacts |-> "none"]
  /\ processed' = {}

\* initChatsListener up to `await initNotifications()`, with at most cap calls
\* suspended there.
InitChatsListenerWithin(cap) ==
  /\ pendingInit < cap
  /\ ReleaseListeners
  /\ connectionState' = "connecting"
  /\ loggedInUserId' = Self
  /\ isInitialChatsLoad' = TRUE
  /\ notifiedMessageTimestamps' = [c \in ChatIds |-> 0]
  /\ pendingInit' = pendingInit + 1
  /\ evt' = NoEvt
  /\ out' = <<>>
  /\ UNCHANGED <<chats, currentChatId, msgVars, inflight>>

InitChatsListener == InitChatsListenerWithin(MaxPending) /\ UNCHANGED appVars

\* initChatsListener after the await: subscribeToChats registers the index
\* listener and its release function is kept in chatsUnsubscribe.
FreeSubs == {s \in SubIds : ~subs[s].open /\ inflight.sub # s}
InitResume ==
  /\ pendingInit > 0
  /\ FreeSubs # {}
  /\ LET s == CHOOSE f \in FreeSubs : \A g \in FreeSubs : f <= g IN
       /\ subs' = [subs EXCEPT ![s] = FreshSub]
       /\ chatsUnsubscribe' = s
  /\ pendingInit' = pendingInit - 1
  /\ evt' = NoEvt
  /\ out' = <<>>
  /\ UNCHANGED <<chats, currentChatId, connectionState, otherUserPresence,
                 presenceUnsubscribes, loggedInUserId, notifiedMessageTimestamps,
                 isInitialChatsLoad, presenceInitialStates, processed, firstSeen,
                 msgVars, inflight>>
  /\ UNCHANGED appVars

\* cleanupChatsListener, called on sign-out and on unmount.
CleanupChatsStore ==
  /\ ReleaseListeners
  /\ loggedInUserId' = NoUser
  /\ isInitialChatsLoad' = TRUE
  /\ notifiedMessageTimestamps' = [c \in ChatIds |-> 0]
  /\ UNCHANGED <<chats, connectionState>>

CleanupChatsListener ==
  /\ CleanupChatsStore
  /\ evt' = [NoEvt EXCEPT !.kind = "cleanup"]
  /\ out' = <<>>
  /\ UNCHANGED <<currentChatId, pendingInit, msgVars, inflight, appVars>>

\* cleanupMessagesListener without the release.
ReleasedNoMsgSubs == msgSubs

\* What cleanupMessagesListener releases: the listener messagesUnsubscribe
\* stands for, if any.
ReleasedMsgSubs ==
  [m \in MsgSubIds |-> IF m = messagesUnsubscribe THEN ClosedMsgSub ELSE msgSubs[m]]

\* cleanupMessagesListener
CleanupMessagesStore ==
  /\ msgSubs' = ReleasedMsgSubs
  /\ messagesUnsubscribe' = NoSub
  /\ messages' = <<>>
  /\ UNCHANGED loadingMessages

CleanupMessagesListener ==
  /\ CleanupMessagesStore
  /\ evt' = NoEvt
  /\ out' = <<>>
  /\ UNCHANGED <<storeVars, currentChatId, chatsUnsubscribe,
                 loggedInUserId, pendingInit, subs, inflight, appVars>>

\* selectChat, reached from a row of the published list (ChatList.handleSelect).
\* A selectChat that leaves the published messages in place until the new
\* listener delivers.
SelectChatKeepsMessages(c) ==
  /\ c \in Ids(chats)
  /\ LET released == ReleasedMsgSubs
         free == {m \in MsgSubIds : ~released[m].open /\ inflight.msub # m} IN
       /\ free # {}
       /\ LET m == CHOOSE f \in free : \A g \in free : f <= g IN
            /\ msgSubs' = [released EXCEPT ![m] = [open |-> TRUE, chat |-> c,
                                                   delivered |-> FALSE]]
            /\ messagesUnsubscribe' = m
  /\ UNCHANGED messages
  /\ currentChatId' = c
  /\ loadingMessages' = TRUE
  /\ evt' = [NoEvt EXCEPT !.kind = "select", !.chat = c,
                          !.ids = {msgSubs[m].chat : m \in {n \in MsgSubIds : msgSubs[n].open}}]
  /\ out' = <<>>
  /\ UNCHANGED <<storeVars, chatsUnsubscribe, loggedInUserId, pendingInit, subs, inflight>>
  /\ UNCHANGED appVars

SelectChat(c) ==
  /\ c \in Ids(chats)
  /\ LET released == ReleasedMsgSubs
         free == {m \in MsgSubIds : ~released[m].open /\ inflight.msub # m} IN
       /\ free # {}
       /\ LET m == CHOOSE f \in free : \A g \in free : f <= g IN
            /\ msgSubs' = [released EXCEPT ![m] = [open |-> TRUE, chat |-> c,
                                                   delivered |-> FALSE]]
            /\ messagesUnsubscribe' = m
  /\ messages' = <<>>
  /\ currentChatId' = c
  /\ loadingMessages' = TRUE
  /\ evt' = [NoEvt EXCEPT !.kind = "select", !.chat = c,
                          !.ids = {msgSubs[m].chat : m \in {n \in MsgSubIds : msgSubs[n].open}}]
  /\ out' = <<>>
  /\ UNCHANGED <<storeVars, chatsUnsubscribe, loggedInUserId, pendingInit, subs, inflight>>
  /\ UNCHANGED appVars

\* clearCurrentChat
\* A clearCurrentChat that also empties the published conversation list.
ClearCurrentChatDropsList ==
  /\ msgSubs' = ReleasedMsgSubs
  /\ messagesUnsubscribe' = NoSub
  /\ messages' = <<>>
  /\ currentChatId' = NoChat
  /\ chats' = <<>>
  /\ evt' = [NoEvt EXCEPT !.kind = "clear", !.chat = currentChatId]
  /\ out' = <<>>
  /\ UNCHANGED <<connectionState, otherUserPresence, presenceUnsubscribes,
                 notifiedMessageTimestamps, isInitialChatsLoad,
                 presenceInitialStates, processed, firstSeen, loadingMessages,
                 chatsUnsubscribe, loggedInUserId, pendingInit, subs, inflight>>
  /\ UNCHANGED appVars

ClearCurrentChat ==
  /\ msgSubs' = ReleasedMsgSubs
  /\ messagesUnsubscribe' = NoSub
  /\ messages' = <<>>
  /\ currentChatId' = NoChat
  /\ evt' = [NoEvt EXCEPT !.kind = "clear", !.chat = currentChatId]
  /\ out' = <<>>
  /\ UNCHANGED <<storeVars, loadingMessages, chatsUnsubscribe, loggedInUserId,
                 pendingInit, subs, inflight>>
  /\ UNCHANGED appVars

\* A comparator key that puts a message without timestamp last.
MsgTimeMissingLast(m) == IF m.timestamp = NoTime THEN MaxTime + 1 ELSE m.timestamp

\* The timestamp the comparator of subscribeToMessages sorts by.
MsgTime(m) == IF m.timestamp = NoTime THEN 0 ELSE m.timestamp

\* messages.sort((a, b) => timeA - timeB): stable, ascending.
RECURSIVE InsertMessage(_, _)
InsertMessage(sorted, x) ==
  IF sorted = <<>> THEN <<x>>
  ELSE IF MsgTime(sorted[Len(sorted)]) <= MsgTime(x) THEN Append(sorted, x)
  ELSE Append(InsertMessage(SubSeq(sorted, 1, Len(sorted) - 1), x), sorted[Len(sorted)])

RECURSIVE SortMessages(_)
SortMessages(raw) ==
  IF raw = <<>> THEN <<>>
  ELSE InsertMessage(SortMessages(SubSeq(raw, 1, Len(raw) - 1)), raw[Len(raw)])

\* The callback without setLoadingMessages(false).
MessageListenerKeepsLoading(m, raw) ==
  /\ messages' = SortMessages(raw)
  /\ msgSubs' = [msgSubs EXCEPT ![m].delivered = msgSubs[m].open]
  /\ evt' = [NoEvt EXCEPT !.kind = "messages", !.sub = m, !.chat = msgSubs[m].chat,
                          !.seen = msgSubs[m].delivered, !.raw = raw]
  /\ out' = <<>>
  /\ UNCHANGED <<storeVars, currentChatId, loadingMessages, messagesUnsubscribe,
                 chatsUnsubscribe, loggedInUserId, pendingInit, subs>>

\* The callback selectChat hands to subscribeToMessages, run for listener m.
MessageListener(m, raw) ==
  /\ messages' = SortMessages(raw)
  /\ loadingMessages' = FALSE
  /\ msgSubs' = [msgSubs EXCEPT ![m].delivered = msgSubs[m].open]
  /\ evt' = [NoEvt EXCEPT !.kind = "messages", !.sub = m, !.chat = msgSubs[m].chat,
                          !.seen = msgSubs[m].delivered, !.raw = raw]
  /\ out' = <<>>
  /\ UNCHANGED <<storeVars, currentChatId, messagesUnsubscribe, chatsUnsubscribe,
                 loggedInUserId, pendingInit, subs>>

\* A message snapshot delivered to a registered listener.
MessageSnapshot(m, raw) ==
  /\ msgSubs[m].open
  /\ MessageListener(m, raw)
  /\ UNCHANGED inflight
  /\ UNCHANGED appVars

\* ------------------------------------------------------------------ subscribeToChats

\* notifyUpdate: the cached records, sorted, handed to the callback.
NotifyUpdate(data) == SortChats(data)

\* The index listener without chatData.delete.
DropNothing(data, ids) == data

\* chatData.delete for every conversation that left the index.
DropRemoved(data, ids) == SelectSeq(data, LAMBDA r : r.id \in ids)

\* The index listener with the has-check left out: a listener per listed id.
OpenedAll(keys, ids) == ids

\* Ids the index listener registers a per-conversation listener for.
Opened(keys, ids) == ids \ keys

\* Ids whose listener the index listener releases.
Released(keys, ids) == keys \ ids

\* The index listener: one per-conversation listener per new id, release and
\* drop for every id that left, and an empty list published when none is left.
IndexSnapshot(s, ids) ==
  /\ subs[s].open /\ subs[s].index
  /\ LET keys == subs[s].chatSubscriptions
         data == DropRemoved(subs[s].chatData, ids) IN
       /\ subs' = [subs EXCEPT
            ![s].chatSubscriptions = (keys \cup Opened(keys, ids)) \ Released(keys, ids),
            ![s].listeners = [c \in ChatIds |->
               IF c \in Released(keys, ids) THEN 0
               ELSE IF c \in Opened(keys, ids) THEN @[c] + 1 ELSE @[c]],
            ![s].chatData = data,
            ![s].indexed = TRUE,
            ![s].loading = IF subs[s].indexed THEN subs[s].loading \cap ids ELSE ids]
       /\ IF ids = {}
            THEN OnChats(NotifyUpdate(data), FALSE)
            ELSE /\ out' = <<>>
                 /\ UNCHANGED storeVars
  /\ evt' = [NoEvt EXCEPT !.kind = "index", !.sub = s, !.ids = ids,
                          !.initial = isInitialChatsLoad /\ ids = {}]
  /\ UNCHANGED <<currentChatId, chatsUnsubscribe, loggedInUserId, pendingInit,
                 msgVars, inflight>>
  /\ UNCHANGED appVars

\* An error callback that only logs: the store is not told.
IndexErrorLogsOnly(s) ==
  /\ subs[s].open /\ subs[s].index
  /\ subs' = [subs EXCEPT ![s].index = FALSE]
  /\ evt' = [NoEvt EXCEPT !.kind = "error", !.sub = s]
  /\ out' = <<>>
  /\ UNCHANGED <<chats, currentChatId, connectionState, otherUserPresence,
                 chatsUnsubscribe, presenceUnsubscribes, loggedInUserId,
                 notifiedMessageTimestamps, isInitialChatsLoad, presenceInitialStates,
                 pendingInit, processed, firstSeen, msgVars, inflight>>
  /\ UNCHANGED appVars

\* The error callback of the index listener; the store cancels a listener it
\* reports an error for.
IndexError(s) ==
  /\ subs[s].open /\ subs[s].index
  /\ subs' = [subs EXCEPT ![s].index = FALSE]
  /\ connectionState' = "error"
  /\ evt' = [NoEvt EXCEPT !.kind = "error", !.sub = s]
  /\ out' = <<>>
  /\ UNCHANGED <<chats, currentChatId, otherUserPresence, chatsUnsubscribe,
                 presenceUnsubscribes, loggedInUserId, notifiedMessageTimestamps,
                 isInitialChatsLoad, presenceInitialStates, pendingInit,
                 processed, firstSeen, msgVars, inflight>>
  /\ UNCHANGED appVars

\* The callback of a per-conversation listener: cache or drop the record,
\* then notifyUpdate.  active is !document.hidden && document.hasFocus() at
\* that moment.  The maps of a released closure were cleared and nothing
\* reads them again, so what the callback writes there is not kept.
ChatListener(s, c, doc, active) ==
  /\ LET data == IF doc = NoDoc THEN MapDelete(subs[s].chatData, c)
                                ELSE MapSet(subs[s].chatData, doc) IN
       /\ subs' = IF subs[s].open
                    THEN [subs EXCEPT ![s].chatData = data,
                                      ![s].loading = subs[s].loading \ {c}]
                    ELSE subs
       /\ OnChats(NotifyUpdate(data), active)
       /\ evt' = [NoEvt EXCEPT !.kind = "chat", !.sub = s, !.chat = c,
                               !.initial = isInitialChatsLoad, !.active = active,
                               !.newer = doc # NoDoc /\ IsNewerMessage(doc),
                               !.dup = doc # NoDoc /\ <<c, TimeOf(doc)>> \in processed,
                               !.failed = sinksFail /\ out' # <<>>]
  /\ UNCHANGED <<currentChatId, chatsUnsubscribe, loggedInUserId, pendingInit, msgVars>>

\* A per-conversation snapshot delivered to a registered listener.
ChatSnapshot(s, c, doc, active) ==
  /\ subs[s].open /\ c \in subs[s].chatSubscriptions
  /\ ChatListener(s, c, doc, active)
  /\ UNCHANGED inflight
  /\ UNCHANGED appVars

\* ------------------------------------------------------------------ presence

\* The comparisons with wasOnline read from the new record: nothing is emitted.
PresenceIntentsNewOnly(prev, rec, name) ==
  LET wasOnline == rec = "online"
      isNowOnline == rec = "online" IN
  (IF ~wasOnline /\ isNowOnline THEN <<ContactOnline(name)>> ELSE <<>>)
    \o (IF wasOnline /\ ~isNowOnline THEN <<ContactOffline(name)>> ELSE <<>>)

\* The comparisons without the previous value: online whenever online now.
PresenceIntentsNoPrev(prev, rec, name) ==
  IF rec = "online" THEN <<ContactOnline(name)>> ELSE <<ContactOffline(name)>>

\* The two comparisons of the presence callback for a contact seen before.
PresenceIntents(prev, rec, name) ==
  LET wasOnline == prev = "online"
      isNowOnline == rec = "online" IN
  (IF ~wasOnline /\ isNowOnline THEN <<ContactOnline(name)>> ELSE <<>>)
    \o (IF wasOnline /\ ~isNowOnline THEN <<ContactOffline(name)>> ELSE <<>>)

\* A presence callback that takes a missing record as the first sighting.
PresenceListenerNullIsBaseline(u, rec) ==
  /\ presenceInitialStates' = presenceInitialStates \cup {u}
  /\ IF rec = "null"
       THEN /\ out' = <<>>
            /\ UNCHANGED otherUserPresence
       ELSE /\ out' = IF u \notin presenceInitialStates THEN <<>>
                      ELSE IF otherUserPresence[u] # "absent"
                        THEN PresenceIntents(otherUserPresence[u], rec, NameOf(u))
                      ELSE <<>>
            /\ otherUserPresence' = [otherUserPresence EXCEPT ![u] = rec]
  /\ firstSeen' = [firstSeen EXCEPT ![u] = IF @ = "none" THEN rec ELSE "later"]
  /\ evt' = [NoEvt EXCEPT !.kind = "presence", !.user = u, !.rec = rec,
                          !.seen = u \in presenceInitialStates,
                          !.prev = otherUserPresence[u],
                          !.first = firstSeen[u],
                          !.failed = sinksFail /\ out' # <<>>]
  /\ UNCHANGED <<chats, currentChatId, connectionState, chatsUnsubscribe,
                 presenceUnsubscribes, loggedInUserId, notifiedMessageTimestamps,
                 isInitialChatsLoad, pendingInit, subs, processed, msgVars>>

\* The callback updatePresenceSubscriptions hands to subscribeToUserPresence.
PresenceListener(u, rec) ==
  /\ IF rec = "null"
       THEN /\ out' = <<>>
            /\ UNCHANGED <<presenceInitialStates, otherUserPresence>>
       ELSE /\ presenceInitialStates' = presenceInitialStates \cup {u}
            /\ out' = IF u \notin presenceInitialStates THEN <<>>
                      ELSE IF otherUserPresence[u] # "absent"
                        THEN PresenceIntents(otherUserPresence[u], rec, NameOf(u))
                      ELSE <<>>
            /\ otherUserPresence' = [otherUserPresence EXCEPT ![u] = rec]
  /\ firstSeen' = [firstSeen EXCEPT ![u] = IF @ = "none" THEN rec ELSE "later"]
  /\ evt' = [NoEvt EXCEPT !.kind = "presence", !.user = u, !.rec = rec,
                          !.seen = u \in presenceInitialStates,
                          !.prev = otherUserPresence[u],
                          !.first = firstSeen[u],
                          !.failed = sinksFail /\ out' # <<>>]
  /\ UNCHANGED <<chats, currentChatId, connectionState, chatsUnsubscribe,
                 presenceUnsubscribes, loggedInUserId, notifiedMessageTimestamps,
                 isInitialChatsLoad, pendingInit, subs, processed, msgVars>>

\* A presence snapshot delivered to a registered listener.
PresenceSnapshot(u, rec) ==
  /\ u \in presenceUnsubscribes
  /\ PresenceListener(u, rec)
  /\ UNCHANGED inflight
  /\ UNCHANGED appVars

\* ------------------------------------------------------------------ callbacks in flight

\* The transport dispatches a callback to a listener that is registered at
\* that moment; the callback runs in a later step.
DispatchChat(s, c, doc) ==
  /\ inflight = NoCallback
  /\ subs[s].open /\ c \in subs[s].chatSubscriptions
  /\ inflight' = [NoCallback EXCEPT !.kind = "chat", !.sub = s, !.chat = c, !.doc = doc]
  /\ evt' = NoEvt
  /\ out' = <<>>
  /\ UNCHANGED <<storeVars, currentChatId, chatsUnsubscribe, loggedInUserId,
                 pendingInit, subs, msgVars>>
  /\ UNCHANGED appVars

DispatchPresence(u, rec) ==
  /\ inflight = NoCallback
  /\ u \in presenceUnsubscribes
  /\ inflight' = [NoCallback EXCEPT !.kind = "presence", !.user = u, !.rec = rec]
  /\ evt' = NoEvt
  /\ out' = <<>>
  /\ UNCHANGED <<storeVars, currentChatId, chatsUnsubscribe, loggedInUserId,
                 pendingInit, subs, msgVars>>
  /\ UNCHANGED appVars

DispatchMessages(m, raw) ==
  /\ inflight = NoCallback
  /\ msgSubs[m].open
  /\ inflight' = [NoCallback EXCEPT !.kind = "messages", !.msub = m,
                                    !.chat = msgSubs[m].chat, !.msgs = raw]
  /\ evt' = NoEvt
  /\ out' = <<>>
  /\ UNCHANGED <<storeVars, currentChatId, chatsUnsubscribe, loggedInUserId,
                 pendingInit, subs, msgVars>>
  /\ UNCHANGED appVars

\* Whether the listener a dispatched callback belongs to is still registered.
StillSubscribed(cb) ==
  CASE cb.kind = "chat" -> subs[cb.sub].open /\ cb.chat \in subs[cb.sub].chatSubscriptions
    [] cb.kind = "presence" -> cb.user \in presenceUnsubscribes
    [] cb.kind = "messages" -> msgSubs[cb.msub].open
    [] OTHER -> FALSE

\* The dispatched callback runs.  None of the three callbacks looks at
\* whether its listener is still registered.
RunCallback ==
  /\ inflight # NoCallback
  /\ inflight' = NoCallback
  /\ CASE inflight.kind = "chat" ->
             ChatListener(inflight.sub, inflight.chat, inflight.doc, TRUE)
       [] inflight.kind = "presence" ->
             PresenceListener(inflight.user, inflight.rec)
       [] OTHER ->
             MessageListener(inflight.msub, inflight.msgs)
  /\ UNCHANGED appVars

\* ------------------------------------------------------------------ App.tsx and the presence service

\* Nothing runs once the window is destroyed.
Alive == closePc # "destroyed"

\* A request to the server: what it asks for, who awaits its answer (a
\* promise chain of a connect event, or cleanupUserPresence called by a
\* handler) and, for a chain, the handlers that have called
\* cleanupUserPresence since its connect event.
Req(op, by) == [op |-> op, by |-> by, stale |-> {}]

\* A server that answers pending requests in any order.
AnswerableInAnyOrder == Range(serverQueue)

\* The server answers the requests of a client in the order in which they
\* were issued.
Answerable == IF serverQueue = <<>> THEN {} ELSE {Head(serverQueue)}

\* The queue without the oldest request equal to r.
RECURSIVE Without(_, _)
Without(q, r) ==
  IF q = <<>> THEN <<>>
  ELSE IF Head(q) = r THEN Tail(q)
  ELSE <<Head(q)>> \o Without(Tail(q), r)

\* The requests of chains in q, marked as older than a cleanup by h.
MarkStale(q, h) ==
  [i \in DOMAIN q |-> IF q[i].by = "chain" THEN [q[i] EXCEPT !.stale = @ \cup {h}]
                                          ELSE q[i]]

\* initUserPresence: replaces the .info/connected listener; the new listener
\* has not been called yet.
InitUserPresence ==
  /\ presenceCleanup' = TRUE
  /\ connSeen' = "none"

\* The auth listener reports a login and the effect on user() runs
\* initChatsListener and initUserPresence.
Login ==
  /\ Alive
  /\ authUser = NoUser
  /\ authUser' = Self
  /\ InitChatsListenerWithin(MaxPending)
  /\ InitUserPresence
  /\ UNCHANGED <<connected, onDisconnectArmed, selfOnline, presenceOps,
                 signOutPc, closePc, sinksFail>>
  /\ UNCHANGED serverQueue
  /\ UNCHANGED viewVars

\* The transport gains or loses its connection; on a loss the server applies
\* the disconnect fallback if one is registered, and forgets it.
Connect ==
  /\ Alive
  /\ ~connected
  /\ connected' = TRUE
  /\ evt' = NoEvt
  /\ out' = <<>>
  /\ UNCHANGED <<storeVars, currentChatId, chatsUnsubscribe, loggedInUserId,
                 pendingInit, subs, msgVars, inflight, authUser, presenceCleanup,
                 connSeen, onDisconnectArmed, selfOnline, presenceOps,
                 signOutPc, closePc, sinksFail>>
  /\ UNCHANGED serverQueue
  /\ UNCHANGED viewVars

Disconnect ==
  /\ connected
  /\ connected' = FALSE
  /\ selfOnline' = IF onDisconnectArmed THEN FALSE ELSE selfOnline
  /\ onDisconnectArmed' = FALSE
  /\ evt' = NoEvt
  /\ out' = <<>>
  /\ UNCHANGED <<storeVars, currentChatId, chatsUnsubscribe, loggedInUserId,
                 pendingInit, subs, msgVars, inflight, authUser, presenceCleanup,
                 connSeen, presenceOps, signOutPc, closePc, sinksFail>>
  /\ UNCHANGED serverQueue
  /\ UNCHANGED viewVars

\* The callback of the .info/connected listener, called with the current
\* value: false returns at once, true starts onDisconnect(userRef).update().
ConnectivityCallback ==
  /\ Alive
  /\ presenceCleanup
  /\ connSeen # (IF connected THEN "true" ELSE "false")
  /\ connected => presenceOps.registering + presenceOps.writing < MaxChains
  /\ connSeen' = IF connected THEN "true" ELSE "false"
  /\ presenceOps' = IF connected
                      THEN [presenceOps EXCEPT !.registering = @ + 1]
                      ELSE presenceOps
  /\ serverQueue' = IF connected
                      THEN Append(serverQueue, Req("register", "chain"))
                      ELSE serverQueue
  /\ evt' = [NoEvt EXCEPT !.kind = "connectivity", !.active = connected]
  /\ out' = <<>>
  /\ UNCHANGED <<storeVars, currentChatId, chatsUnsubscribe, loggedInUserId,
                 pendingInit, subs, msgVars, inflight, authUser, presenceCleanup,
                 connected, onDisconnectArmed, selfOnline, signOutPc, closePc,
                 sinksFail>>
  /\ UNCHANGED viewVars

\* A failed registration that still goes on to the online write.
RegisterFailStillWrites ==
  /\ Alive
  /\ presenceOps.registering > 0
  /\ connected
  /\ presenceOps' = [registering |-> presenceOps.registering - 1,
                     writing |-> presenceOps.writing + 1]
  /\ \E r \in Answerable :
       /\ r.op = "register"
       /\ serverQueue' = Append(Without(serverQueue, r), [r EXCEPT !.op = "online"])
  /\ evt' = [NoEvt EXCEPT !.kind = "registerFailed"]
  /\ out' = <<>>
  /\ UNCHANGED <<storeVars, currentChatId, chatsUnsubscribe, loggedInUserId,
                 pendingInit, subs, msgVars, inflight, authUser, presenceCleanup,
                 connected, connSeen, onDisconnectArmed, selfOnline, signOutPc,
                 closePc, sinksFail>>
  /\ UNCHANGED viewVars

\* onDisconnect(userRef).update() resolved: .then issues the online write.
RegisterOk ==
  /\ Alive
  /\ presenceOps.registering > 0
  /\ connected
  /\ onDisconnectArmed' = TRUE
  /\ presenceOps' = [registering |-> presenceOps.registering - 1,
                     writing |-> presenceOps.writing + 1]
  /\ \E r \in Answerable :
       /\ r.op = "register"
       /\ serverQueue' = Append(Without(serverQueue, r), [r EXCEPT !.op = "online"])
  /\ evt' = [NoEvt EXCEPT !.kind = "registered"]
  /\ out' = <<>>
  /\ UNCHANGED <<storeVars, currentChatId, chatsUnsubscribe, loggedInUserId,
                 pendingInit, subs, msgVars, inflight, authUser, presenceCleanup,
                 connected, connSeen, selfOnline, signOutPc, closePc, sinksFail>>
  /\ UNCHANGED viewVars

\* onDisconnect(userRef).update() rejected: .catch logs, .then is skipped.
RegisterFail ==
  /\ Alive
  /\ presenceOps.registering > 0
  /\ connected
  /\ presenceOps' = [presenceOps EXCEPT !.registering = @ - 1]
  /\ \E r \in Answerable :
       /\ r.op = "register"
       /\ serverQueue' = Without(serverQueue, r)
  /\ evt' = [NoEvt EXCEPT !.kind = "registerFailed"]
  /\ out' = <<>>
  /\ UNCHANGED <<storeVars, currentChatId, chatsUnsubscribe, loggedInUserId,
                 pendingInit, subs, msgVars, inflight, authUser, presenceCleanup,
                 connected, connSeen, onDisconnectArmed, selfOnline, signOutPc,
                 closePc, sinksFail>>
  /\ UNCHANGED viewVars

\* The online write of a chain is applied, or rejected and logged.
OnlineWrite(ok) ==
  /\ Alive
  /\ presenceOps.writing > 0
  /\ connected
  /\ selfOnline' = IF ok THEN TRUE ELSE selfOnline
  /\ presenceOps' = [presenceOps EXCEPT !.writing = @ - 1]
  /\ \E r \in Answerable :
       /\ r.op = "online"
       /\ serverQueue' = Without(serverQueue, r)
  /\ evt' = [NoEvt EXCEPT !.kind = "onlineWrite", !.active = ok]
  /\ out' = <<>>
  /\ UNCHANGED <<storeVars, currentChatId, chatsUnsubscribe, loggedInUserId,
                 pendingInit, subs, msgVars, inflight, authUser, presenceCleanup,
                 connected, connSeen, onDisconnectArmed, signOutPc, closePc,
                 sinksFail>>
  /\ UNCHANGED viewVars

\* Positions of a handler that awaits cleanupUserPresence: "idle", "cancel"
\* (awaiting onDisconnect(userRef).cancel()), "write" (awaiting the offline
\* write), and, once cleanupUserPresence has returned, "ok" (the write was
\* applied), "failed" (it was rejected) or "skipped" (cancel was rejected).
Handlers == {"signOut", "close"}
Returned == {"ok", "failed", "skipped"}
PcOf(h) == IF h = "signOut" THEN signOutPc ELSE closePc
SetPc(h, v) ==
  IF h = "signOut" THEN signOutPc' = v /\ UNCHANGED closePc
                   ELSE closePc' = v /\ UNCHANGED signOutPc

\* cleanupUserPresence up to its first await: releases the connectivity
\* listener and calls onDisconnect(userRef).cancel().
CleanupUserPresenceStart(h) ==
  /\ presenceCleanup' = FALSE
  /\ connSeen' = "none"
  /\ SetPc(h, "cancel")
  /\ serverQueue' = Append(MarkStale(serverQueue, h), Req("cancel", h))

\* handleSignOut up to its await.
SignOutStart ==
  /\ Alive
  /\ authUser # NoUser
  /\ signOutPc = "idle"
  /\ CleanupUserPresenceStart("signOut")
  /\ evt' = [NoEvt EXCEPT !.kind = "signOutRequested"]
  /\ out' = <<>>
  /\ UNCHANGED <<storeVars, currentChatId, chatsUnsubscribe, loggedInUserId,
                 pendingInit, subs, msgVars, inflight, authUser, connected,
                 onDisconnectArmed, selfOnline, presenceOps, sinksFail>>
  /\ UNCHANGED viewVars

\* The close-requested handler up to its await; without a user it does not
\* prevent the default and the window closes.
CloseRequested ==
  /\ closePc = "idle"
  /\ IF authUser # NoUser
       THEN CleanupUserPresenceStart("close")
       ELSE /\ closePc' = "destroyed"
            /\ UNCHANGED <<presenceCleanup, connSeen, signOutPc, serverQueue>>
  /\ evt' = [NoEvt EXCEPT !.kind = "closeRequested"]
  /\ out' = <<>>
  /\ UNCHANGED <<storeVars, currentChatId, chatsUnsubscribe, loggedInUserId,
                 pendingInit, subs, msgVars, inflight, authUser, connected,
                 onDisconnectArmed, selfOnline, presenceOps, sinksFail>>
  /\ UNCHANGED viewVars

\* A request to the server is answered, with success or with a rejection,
\* only while the client is connected and when the requests issued before
\* it have been answered; until then it stays pending.
\* onDisconnect(userRef).cancel() settles: resolved, the offline write is
\* issued; rejected, the catch logs and cleanupUserPresence returns.
CancelSettles(h, ok) ==
  /\ Alive
  /\ PcOf(h) = "cancel"
  /\ Req("cancel", h) \in Answerable
  /\ connected
  /\ onDisconnectArmed' = IF ok THEN FALSE ELSE onDisconnectArmed
  /\ SetPc(h, IF ok THEN "write" ELSE "skipped")
  /\ serverQueue' = IF ok THEN Append(Without(serverQueue, Req("cancel", h)),
                                      Req("offline", h))
                           ELSE Without(serverQueue, Req("cancel", h))
  /\ evt' = NoEvt
  /\ out' = <<>>
  /\ UNCHANGED <<storeVars, currentChatId, chatsUnsubscribe, loggedInUserId,
                 pendingInit, subs, msgVars, inflight, authUser, presenceCleanup,
                 connected, connSeen, selfOnline, presenceOps, sinksFail>>
  /\ UNCHANGED viewVars

\* The offline write settles and cleanupUserPresence returns.
OfflineWriteSettles(h, ok) ==
  /\ Alive
  /\ PcOf(h) = "write"
  /\ Req("offline", h) \in Answerable
  /\ connected
  /\ selfOnline' = IF ok THEN FALSE ELSE selfOnline
  /\ SetPc(h, IF ok THEN "ok" ELSE "failed")
  /\ serverQueue' = Without(serverQueue, Req("offline", h))
  /\ evt' = NoEvt
  /\ out' = <<>>
  /\ UNCHANGED <<storeVars, currentChatId, chatsUnsubscribe, loggedInUserId,
                 pendingInit, subs, msgVars, inflight, authUser, presenceCleanup,
                 connected, connSeen, onDisconnectArmed, presenceOps, sinksFail>>
  /\ UNCHANGED viewVars

\* handleSignOut after its await: cleanupChatsListener,
\* cleanupMessagesListener, then signOut() is called.
SignOutResume ==
  /\ Alive
  /\ signOutPc \in Returned
  /\ CleanupChatsStore
  /\ CleanupMessagesStore
  /\ signOutPc' = "issued"
  /\ evt' = [NoEvt EXCEPT !.kind = "signOut", !.prev = signOutPc]
  /\ out' = <<>>
  /\ UNCHANGED <<currentChatId, pendingInit, inflight, authUser, presenceCleanup,
                 connected, connSeen, onDisconnectArmed, selfOnline, presenceOps,
                 closePc, sinksFail>>
  /\ UNCHANGED serverQueue
  /\ UNCHANGED viewVars

\* signOut() resolved and the auth listener reports that nobody is logged in.
AuthSignedOut ==
  /\ Alive
  /\ signOutPc = "issued"
  /\ authUser' = NoUser
  /\ signOutPc' = "idle"
  /\ evt' = NoEvt
  /\ out' = <<>>
  /\ UNCHANGED <<storeVars, currentChatId, chatsUnsubscribe, loggedInUserId,
                 pendingInit, subs, msgVars, inflight, presenceCleanup, connected,
                 connSeen, onDisconnectArmed, selfOnline, presenceOps, closePc,
                 sinksFail>>
  /\ UNCHANGED serverQueue
  /\ UNCHANGED viewVars

\* A close handler that destroys the window without awaiting the cleanup.
CloseResumeNoAwait ==
  /\ closePc \in Returned \cup {"cancel", "write"}
  /\ closePc' = "destroyed"
  /\ evt' = [NoEvt EXCEPT !.kind = "destroy", !.prev = closePc]
  /\ out' = <<>>
  /\ UNCHANGED <<storeVars, currentChatId, chatsUnsubscribe, loggedInUserId,
                 pendingInit, subs, msgVars, inflight, authUser, presenceCleanup,
                 connected, connSeen, onDisconnectArmed, selfOnline, presenceOps,
                 signOutPc, sinksFail>>
  /\ UNCHANGED serverQueue
  /\ UNCHANGED viewVars

\* The close-requested handler after its await: the window is destroyed.
CloseResume ==
  /\ closePc \in Returned
  /\ closePc' = "destroyed"
  /\ evt' = [NoEvt EXCEPT !.kind = "destroy", !.prev = closePc]
  /\ out' = <<>>
  /\ UNCHANGED <<storeVars, currentChatId, chatsUnsubscribe, loggedInUserId,
                 pendingInit, subs, msgVars, inflight, authUser, presenceCleanup,
                 connected, connSeen, onDisconnectArmed, selfOnline, presenceOps,
                 signOutPc, sinksFail>>
  /\ UNCHANGED serverQueue
  /\ UNCHANGED viewVars

\* The notification and sound sinks start or stop failing.
SinksToggle ==
  /\ Alive
  /\ sinksFail' = ~sinksFail
  /\ evt' = NoEvt
  /\ out' = <<>>
  /\ UNCHANGED <<storeVars, currentChatId, chatsUnsubscribe, loggedInUserId,
                 pendingInit, subs, msgVars, inflight, authUser, presenceCleanup,
                 connected, connSeen, onDisconnectArmed, selfOnline, presenceOps,
                 signOutPc, closePc>>
  /\ UNCHANGED serverQueue
  /\ UNCHANGED viewVars

\* ------------------------------------------------------------------ createChat

\* Calls of createChat and createGroupChat that can be in progress or done.
MaxCalls == 3

Users == {Self} \cup Contacts
CallIds == 1..MaxCalls
NoKey == 0
\* The pair of users the direct chat is created for.
Pair == {Self, "bob"}

IdleCall == [pc |-> "idle", kind |-> "none", u1 |-> NoUser, u2 |-> NoUser,
             scan |-> {}, key |-> NoKey, ret |-> NoKey]

KeysInUse == {c.id : c \in dbChats} \cup {createCalls[k].key : k \in CallIds}

\* push(chatsRef).key: a key no other push has produced, later keys larger.
PushKey == 1 + Cardinality(KeysInUse \ {NoKey})

\* The smallest key of a non-empty set: Object.keys lists children in key order.
FirstKey(S) == CHOOSE c \in S : \A d \in S : c <= d

CallFrame ==
  /\ evt' = NoEvt
  /\ out' = <<>>
  /\ UNCHANGED <<storeVars, currentChatId, chatsUnsubscribe, loggedInUserId,
                 pendingInit, subs, msgVars, inflight, authUser, presenceCleanup,
                 connected, connSeen, onDisconnectArmed, selfOnline, presenceOps,
                 serverQueue, signOutPc, closePc, sinksFail, typingVars>>

\* createChat(a, b, ...) is called and suspends at `await get(userChatsRef)`.
CreateChatCall(k, a, b) ==
  /\ createCalls[k].pc = "idle"
  /\ a # b
  /\ createCalls' = [createCalls EXCEPT ![k] =
       [IdleCall EXCEPT !.pc = "index", !.kind = "direct", !.u1 = a, !.u2 = b]]
  /\ UNCHANGED <<dbChats, dbUserChats>>
  /\ CallFrame

\* The index of user1 arrives. With no entry the call pushes a key and sends
\* the new record; otherwise it asks for the first indexed record.
CreateChatIndex(k) ==
  LET call == createCalls[k]
      ids == dbUserChats[call.u1]
  IN /\ call.pc = "index"
     /\ createCalls' = [createCalls EXCEPT ![k] =
          IF ids = {}
            THEN [call EXCEPT !.pc = "set", !.key = PushKey]
            ELSE [call EXCEPT !.pc = "scan", !.scan = ids]]
     /\ UNCHANGED <<dbChats, dbUserChats>>
     /\ CallFrame

\* One indexed record arrives: the call returns its id if user2 is among its
\* participants, asks for the next one otherwise, and after the last one
\* pushes a key and sends the new record.
CreateChatGet(k) ==
  LET call == createCalls[k]
      c == FirstKey(call.scan)
      found == \E r \in dbChats : r.id = c /\ call.u2 \in r.participants
      rest == call.scan \ {c}
  IN /\ call.pc = "scan"
     /\ createCalls' = [createCalls EXCEPT ![k] =
          IF found THEN [call EXCEPT !.pc = "done", !.ret = c, !.scan = {}]
          ELSE IF rest = {} THEN [call EXCEPT !.pc = "set", !.key = PushKey, !.scan = {}]
          ELSE [call EXCEPT !.scan = rest]]
     /\ UNCHANGED <<dbChats, dbUserChats>>
     /\ CallFrame

\* createGroupChat(participants, ...) pushes a key and sends the group record.
CreateGroupChatCall(k) ==
  /\ createCalls[k].pc = "idle"
  /\ createCalls' = [createCalls EXCEPT ![k] =
       [IdleCall EXCEPT !.pc = "set", !.kind = "group", !.u1 = Self,
                        !.key = PushKey]]
  /\ UNCHANGED <<dbChats, dbUserChats>>
  /\ CallFrame

Members(call) == IF call.kind = "group" THEN Users ELSE {call.u1, call.u2}

\* `await set(newChatRef, ...)`: the record is stored and the call sends the
\* index update.
CreateChatSet(k) ==
  LET call == createCalls[k]
  IN /\ call.pc = "set"
     /\ dbChats' = dbChats \cup {[id |-> call.key, participants |-> Members(call),
                                  isGroup |-> call.kind = "group"]}
     /\ createCalls' = [createCalls EXCEPT ![k].pc = "update"]
     /\ UNCHANGED dbUserChats
     /\ CallFrame

\* `await update(ref(db), updates)`: every participant's index gains the key
\* and the call returns it.
CreateChatUpdate(k) ==
  LET call == createCalls[k]
  IN /\ call.pc = "update"
     /\ dbUserChats' = [u \in Users |->
          IF u \in Members(call) THEN dbUserChats[u] \cup {call.key}
                                 ELSE dbUserChats[u]]
     /\ createCalls' = [createCalls EXCEPT ![k] =
          [call EXCEPT !.pc = "done", !.ret = call.key]]
     /\ UNCHANGED dbChats
     /\ CallFrame

\* ------------------------------------------------------------------ typing

\* Keystrokes the user makes before they stop typing.
MaxKeys == 3

ViewFrame ==
  /\ evt' = NoEvt
  /\ out' = <<>>
  /\ UNCHANGED <<storeVars, currentChatId, chatsUnsubscribe, loggedInUserId,
                 pendingInit, subs, msgVars, inflight, authUser, presenceCleanup,
                 connected, connSeen, onDisconnectArmed, selfOnline, presenceOps,
                 serverQueue, signOutPc, closePc, sinksFail, dbVars>>

\* onInput: the draft takes the input's value and handleTyping runs. The first
\* keystroke of a burst writes typing/<Self> = true; every keystroke re-arms
\* the 2 s timer. setTypingStatus is one update of the record, taken here as
\* applied when it is issued.
HandleTyping(nonEmpty) ==
  /\ keystrokes < MaxKeys
  /\ keystrokes' = keystrokes + 1
  /\ newMessage' = nonEmpty
  /\ IF currentChatId = NoChat \/ authUser = NoUser
       THEN UNCHANGED <<isTyping, typingFlag, typingTimeout>>
       ELSE /\ isTyping' = TRUE
            /\ typingFlag' = (IF isTyping THEN typingFlag ELSE TRUE)
            /\ typingTimeout' = TRUE
  /\ UNCHANGED <<sendState, sendPc>>
  /\ ViewFrame

\* The 2 s timer expires: the signal and the record's flag are cleared.
TypingTimeoutFires ==
  /\ typingTimeout
  /\ typingTimeout' = FALSE
  /\ isTyping' = FALSE
  /\ typingFlag' = FALSE
  /\ UNCHANGED <<sendState, sendPc, newMessage, keystrokes>>
  /\ ViewFrame

\* The form is submitted (the button is disabled while sending or with an
\* empty draft): the timer is cleared, the signal reset, and sendMessage
\* suspends at `await set(newMessageRef, ...)`.
HandleSend ==
  /\ sendState # "sending"
  /\ newMessage
  /\ currentChatId # NoChat
  /\ authUser # NoUser
  /\ typingTimeout' = FALSE
  /\ isTyping' = FALSE
  /\ sendState' = "sending"
  /\ sendPc' = "set"
  /\ UNCHANGED <<newMessage, typingFlag, keystrokes>>
  /\ ViewFrame

\* The message write settles: sendMessage goes on to the update of the
\* conversation record, or rejects and handleSend's catch sets 'error'.
SendMessageSet(ok) ==
  /\ sendPc = "set"
  /\ sendPc' = (IF ok THEN "update" ELSE "idle")
  /\ sendState' = (IF ok THEN sendState ELSE "error")
  /\ UNCHANGED <<isTyping, typingTimeout, newMessage, typingFlag, keystrokes>>
  /\ ViewFrame

\* The update of the conversation record settles: applied, it clears
\* typing/<Self> and handleSend empties the draft; rejected, the catch runs.
SendMessageUpdate(ok) ==
  /\ sendPc = "update"
  /\ sendPc' = "idle"
  /\ sendState' = (IF ok THEN "idle" ELSE "error")
  /\ typingFlag' = (IF ok THEN FALSE ELSE typingFlag)
  /\ newMessage' = (IF ok THEN FALSE ELSE newMessage)
  /\ UNCHANGED <<isTyping, typingTimeout, keystrokes>>
  /\ ViewFrame

\* 3 s after a failed send the state goes back to 'idle'.
SendErrorExpires ==
  /\ sendState = "error"
  /\ sendState' = "idle"
  /\ UNCHANGED <<isTyping, typingTimeout, sendPc, newMessage, typingFlag,
                 keystrokes>>
  /\ ViewFrame

\* ------------------------------------------------------------------ specifications

Init ==
  /\ chats = <<>>
  /\ currentChatId = NoChat
  /\ connectionState = "idle"
  /\ otherUserPresence = [u \in Contacts |-> "absent"]
  /\ chatsUnsubscribe = NoSub
  /\ presenceUnsubscribes = {}
  /\ loggedInUserId = NoUser
  /\ notifiedMessageTimestamps = [c \in ChatIds |-> 0]
  /\ isInitialChatsLoad = TRUE
  /\ presenceInitialStates = {}
  /\ messages = <<>>
  /\ loadingMessages = FALSE
  /\ messagesUnsubscribe = NoSub
  /\ pendingInit = 0
  /\ subs = [s \in SubIds |-> ClosedSub]
  /\ msgSubs = [m \in MsgSubIds |-> ClosedMsgSub]
  /\ inflight = NoCallback
  /\ evt = NoEvt
  /\ out = <<>>
  /\ processed = {}
  /\ firstSeen = [u \in Contacts |-> "none"]
  /\ authUser = NoUser
  /\ presenceCleanup = FALSE
  /\ connected = FALSE
  /\ connSeen = "none"
  /\ onDisconnectArmed = FALSE
  /\ selfOnline = FALSE
  /\ presenceOps = [registering |-> 0, writing |-> 0]
  /\ serverQueue = <<>>
  /\ signOutPc = "idle"
  /\ closePc = "idle"
  /\ sinksFail = FALSE
  /\ dbChats = {}
  /\ dbUserChats = [u \in Users |-> {}]
  /\ createCalls = [k \in CallIds |-> IdleCall]
  /\ isTyping = FALSE
  /\ typingTimeout = FALSE
  /\ sendState = "idle"
  /\ sendPc = "idle"
  /\ newMessage = FALSE
  /\ typingFlag = FALSE
  /\ keystrokes = 0

\* The conversation list and the notification decision.
Next ==
  \/ InitChatsListener
  \/ InitResume
  \/ CleanupChatsListener
  \/ \E c \in ChatIds : SelectChat(c)
  \/ ClearCurrentChat
  \/ \E s \in SubIds, ids \in SUBSET ChatIds : IndexSnapshot(s, ids)
  \/ \E s \in SubIds, c \in ChatIds, active \in BOOLEAN :
       \E doc \in NotifyDocs(c) \cup {NoDoc} : ChatSnapshot(s, c, doc, active)

Spec == Init /\ [][Next]_vars

\* Presence tracking: conversations whose participants come and go.
NextPresence ==
  \/ InitChatsListener
  \/ InitResume
  \/ CleanupChatsListener
  \/ \E s \in SubIds, ids \in SUBSET ChatIds : IndexSnapshot(s, ids)
  \/ \E s \in SubIds, c \in ChatIds :
       \E doc \in PresenceDocs(c) \cup {NoDoc} : ChatSnapshot(s, c, doc, TRUE)
  \/ \E u \in Contacts, rec \in PresenceRecs : PresenceSnapshot(u, rec)

SpecPresence == Init /\ [][NextPresence]_vars

\* The life cycle of the listeners: overlapping starts, stops, index errors.
NextLifecycle ==
  \/ InitChatsListenerWithin(MaxOverlap) /\ UNCHANGED appVars
  \/ InitResume
  \/ CleanupChatsListener
  \/ \E s \in SubIds, ids \in SUBSET ChatIds : IndexSnapshot(s, ids)
  \/ \E s \in SubIds : IndexError(s)
  \/ \E s \in SubIds, c \in ChatIds :
       \E doc \in LifecycleDocs(c) : ChatSnapshot(s, c, doc, TRUE)
  \/ \E u \in Contacts : PresenceSnapshot(u, "online")

SpecLifecycle == Init /\ [][NextLifecycle]_vars

\* The message stream of the selected conversation.
NextMessages ==
  \/ InitChatsListener
  \/ InitResume
  \/ CleanupChatsListener
  \/ \E s \in SubIds, ids \in SUBSET ChatIds : IndexSnapshot(s, ids)
  \/ \E s \in SubIds, c \in ChatIds :
       \E doc \in LifecycleDocs(c) : ChatSnapshot(s, c, doc, TRUE)
  \/ \E c \in ChatIds : SelectChat(c)
  \/ ClearCurrentChat
  \/ CleanupMessagesListener
  \/ \E m \in MsgSubIds :
       \E raw \in MessageLists(msgSubs[m].chat) : MessageSnapshot(m, raw)

SpecMessages == Init /\ [][NextMessages]_vars

\* The sort of subscribeToMessages over every raw snapshot of the selected
\* conversation.
NextSort ==
  \/ InitChatsListener
  \/ InitResume
  \/ \E s \in SubIds : IndexSnapshot(s, {100})
  \/ \E s \in SubIds : \E doc \in LifecycleDocs(100) : ChatSnapshot(s, 100, doc, TRUE)
  \/ SelectChat(100)
  \/ \E m \in MsgSubIds : \E raw \in RawMessages(100) : MessageSnapshot(m, raw)

SpecSort == Init /\ [][NextSort]_vars

\* Conversation records of any shape: subscribeToChats caches what the
\* snapshot holds.
NextMalformed ==
  \/ InitChatsListener
  \/ InitResume
  \/ CleanupChatsListener
  \/ \E s \in SubIds, ids \in SUBSET ChatIds : IndexSnapshot(s, ids)
  \/ \E s \in SubIds, c \in ChatIds, active \in BOOLEAN :
       \E doc \in LifecycleDocs(c) \cup MalformedDocs(c) \cup {NoDoc} :
         ChatSnapshot(s, c, doc, active)

SpecMalformed == Init /\ [][NextMalformed]_vars

\* Conversation and presence updates while the sinks work or fail.
NextSinks ==
  \/ InitChatsListener
  \/ InitResume
  \/ \E s \in SubIds, ids \in SUBSET ChatIds : IndexSnapshot(s, ids)
  \/ \E s \in SubIds, c \in ChatIds, active \in BOOLEAN :
       \E doc \in SinkDocs(c) : ChatSnapshot(s, c, doc, active)
  \/ \E c \in ChatIds : SelectChat(c)
  \/ \E u \in Contacts, rec \in PresenceRecs : PresenceSnapshot(u, rec)
  \/ SinksToggle

SpecSinks == Init /\ [][NextSinks]_vars

\* Login, connectivity, sign-out and window close around one conversation.
NextShutdown ==
  \/ Login
  \/ Alive /\ InitResume
  \/ \E s \in SubIds : Alive /\ IndexSnapshot(s, {100})
  \/ \E s \in SubIds : \E doc \in LifecycleDocs(100) : Alive /\ ChatSnapshot(s, 100, doc, TRUE)
  \/ Alive /\ SelectChat(100)
  \/ Connect
  \/ Disconnect
  \/ ConnectivityCallback
  \/ RegisterOk
  \/ RegisterFail
  \/ \E ok \in BOOLEAN : OnlineWrite(ok)
  \/ SignOutStart
  \/ CloseRequested
  \/ \E h \in Handlers, ok \in BOOLEAN : CancelSettles(h, ok)
  \/ \E h \in Handlers, ok \in BOOLEAN : OfflineWriteSettles(h, ok)
  \/ SignOutResume
  \/ AuthSignedOut
  \/ CloseResume

SpecShutdown == Init /\ [][NextShutdown]_vars

\* A continuation whose promise has settled runs, and a server that is
\* connected again and again answers the requests of cleanupUserPresence; the
\* connection itself need never come back.
SpecShutdownLive ==
  /\ Init /\ [][NextShutdown]_vars
  /\ WF_vars(SignOutResume)
  /\ WF_vars(CloseResume)
  /\ \A h \in Handlers : SF_vars(\E ok \in BOOLEAN : CancelSettles(h, ok))
  /\ \A h \in Handlers : SF_vars(\E ok \in BOOLEAN : OfflineWriteSettles(h, ok))

\* Calls of createChat for alice and bob, by either of them, and of
\* createGroupChat for all three users, in any interleaving.
NextCreateChat ==
  \/ \E k \in CallIds, a \in Pair, b \in Pair : CreateChatCall(k, a, b)
  \/ \E k \in CallIds : CreateChatIndex(k)
  \/ \E k \in CallIds : CreateChatGet(k)
  \/ \E k \in CallIds : CreateGroupChatCall(k)
  \/ \E k \in CallIds : CreateChatSet(k)
  \/ \E k \in CallIds : CreateChatUpdate(k)

SpecCreateChat == Init /\ [][NextCreateChat]_vars

\* Typing and sending in conversation 100.
NextTyping ==
  \/ Login
  \/ InitResume
  \/ \E s \in SubIds : IndexSnapshot(s, {100})
  \/ \E s \in SubIds : \E doc \in LifecycleDocs(100) : ChatSnapshot(s, 100, doc, TRUE)
  \/ SelectChat(100)
  \/ \E nonEmpty \in BOOLEAN : HandleTyping(nonEmpty)
  \/ TypingTimeoutFires
  \/ HandleSend
  \/ \E ok \in BOOLEAN : SendMessageSet(ok)
  \/ \E ok \in BOOLEAN : SendMessageUpdate(ok)
  \/ SendErrorExpires

\* Timers expire and the database answers every write, with success or with a
\* rejection; the user types and sends when they like, or not at all.
SpecTyping ==
  /\ Init /\ [][NextTyping]_vars
  /\ WF_vars(TypingTimeoutFires)
  /\ WF_vars(\E ok \in BOOLEAN : SendMessageSet(ok))
  /\ WF_vars(\E ok \in BOOLEAN : SendMessageUpdate(ok))
  /\ WF_vars(SendErrorExpires)

\* Callbacks that were dispatched before their listener was released and run
\* after it.
NextRace ==
  \/ InitChatsListener
  \/ InitResume
  \/ CleanupChatsListener
  \/ \E s \in SubIds, ids \in SUBSET ChatIds : IndexSnapshot(s, ids)
  \/ \E s \in SubIds, c \in ChatIds :
       \E doc \in LifecycleDocs(c) : ChatSnapshot(s, c, doc, TRUE)
  \/ \E c \in ChatIds : SelectChat(c)
  \/ \E s \in SubIds, c \in ChatIds :
       \E doc \in LifecycleDocs(c) : DispatchChat(s, c, doc)
  \/ \E u \in Contacts : DispatchPresence(u, "online")
  \/ \E m \in MsgSubIds :
       \E raw \in MessageLists(msgSubs[m].chat) : DispatchMessages(m, raw)
  \/ RunCallback

SpecRace == Init /\ [][NextRace]_vars

\* ------------------------------------------------------------------ properties

NewMessagesFor(o, c) ==
  Cardinality({i \in 1..Len(o) : o[i].type = "NewMessage" /\ o[i].chat = c})
SoundsFor(o, c) ==
  Cardinality({i \in 1..Len(o) : o[i].type = "PlayReceived" /\ o[i].chat = c})

\* The step handed a conversation list to the callback of initChatsListener.
Published(e) == e.kind = "chat" \/ (e.kind = "index" /\ e.ids = {})

Pos(data, c) == CHOOSE k \in 1..Len(data) : data[k].id = c

\* C1: while the conversations of the first index snapshot deliver their
\* first record, no NewMessage is emitted for them, and when the last of them
\* has loaded lastNotified holds the updatedAt of every listed conversation
\* (stated for the claim's premise: a logged-in user, several conversations).
C1_NoNotificationWhileLoading ==
  [][(/\ evt'.kind = "chat" /\ evt'.chat \in subs[evt'.sub].loading
      /\ loggedInUserId = Self /\ Len(chats') > 1) =>
       /\ NewMessagesFor(out', evt'.chat) = 0
       /\ subs'[evt'.sub].loading = {} =>
            \A i \in 1..Len(chats') :
              notifiedMessageTimestamps'[chats'[i].id] = chats'[i].updatedAt]_vars

\* C2: a snapshot that carries a conversation with an updatedAt the callback
\* has already processed emits no NewMessage and no received-sound for it, and
\* no snapshot emits two NewMessage for one conversation.
C2_NoDuplicate ==
  [][Published(evt') =>
       \A i \in 1..Len(chats') :
         /\ NewMessagesFor(out', chats'[i].id) <= 1
         /\ <<chats'[i].id, chats'[i].updatedAt>> \in processed =>
              /\ NewMessagesFor(out', chats'[i].id) = 0
              /\ SoundsFor(out', chats'[i].id) = 0]_vars

\* C2 witness: a record of bob's, not being viewed, replayed with a timestamp
\* already processed: nothing is emitted.
C2_Witness ==
  /\ evt.kind = "chat" /\ evt.dup /\ ~evt.initial
  /\ ChatOf(chats, evt.chat).lastMessageSenderId = "bob"
  /\ currentChatId # evt.chat
  /\ out = <<>>

C4_NotifyFromOther ==
  [][(Published(evt') /\ ~isInitialChatsLoad) =>
       \A i \in 1..Len(chats') :
         (/\ chats'[i].updatedAt > notifiedMessageTimestamps[chats'[i].id]
          /\ chats'[i].lastMessageSenderId \notin {NoSender, loggedInUserId}
          /\ ~(chats'[i].id = currentChatId /\ evt'.active)) =>
           /\ NewMessagesFor(out', chats'[i].id) = 1
           /\ \E j \in 1..Len(out') :
                out'[j] = [type |-> "NewMessage", chat |-> chats'[i].id,
                           senderName |-> NameOf(chats'[i].lastMessageSenderId),
                           text |-> chats'[i].lastMessage]
           /\ SoundsFor(out', chats'[i].id) = 1
           /\ notifiedMessageTimestamps'[chats'[i].id] = chats'[i].updatedAt]_vars

\* C4 witness (scenario B): conv200 selected, window in the foreground, conv100
\* updated by bob with "hi": the list reorders and NewMessage plus the sound go out.
C4_Witness ==
  /\ evt.kind = "chat" /\ evt.chat = 100 /\ evt.active /\ ~evt.initial
  /\ currentChatId = 200
  /\ Len(chats) = 2 /\ chats[1].id = 100 /\ chats[2].id = 200
  /\ out = <<[type |-> "NewMessage", chat |-> 100, senderName |-> "Bob", text |-> "hi"],
             [type |-> "PlayReceived", chat |-> 100, senderName |-> "", text |-> ""]>>

\* C5: the same update for the conversation that is selected while the window
\* is in the foreground and visible emits no NewMessage, one received-sound,
\* and advances lastNotified.
C5_ViewingPlaysSoundOnly ==
  [][(Published(evt') /\ ~isInitialChatsLoad) =>
       \A i \in 1..Len(chats') :
         (/\ chats'[i].updatedAt > notifiedMessageTimestamps[chats'[i].id]
          /\ chats'[i].lastMessageSenderId \notin {NoSender, loggedInUserId}
          /\ chats'[i].id = currentChatId /\ evt'.active) =>
           /\ NewMessagesFor(out', chats'[i].id) = 0
           /\ SoundsFor(out', chats'[i].id) = 1
           /\ notifiedMessageTimestamps'[chats'[i].id] = chats'[i].updatedAt]_vars

\* C5 witness (scenario C): conv100 selected and in view, updated by bob.
C5_Witness ==
  /\ evt.kind = "chat" /\ evt.chat = 100 /\ evt.active /\ ~evt.initial /\ evt.newer
  /\ currentChatId = 100
  /\ ChatOf(chats, 100).lastMessageSenderId = "bob"
  /\ notifiedMessageTimestamps[100] = ChatOf(chats, 100).updatedAt
  /\ out = <<[type |-> "PlayReceived", chat |-> 100, senderName |-> "", text |-> ""]>>

\* C6: the first presence payload after a contact's subscription opened emits
\* nothing; the second, when its online value differs from the first one's,
\* emits exactly the matching transition.
C6_FirstPresenceIsBaseline ==
  evt.kind = "presence" =>
    /\ evt.first = "none" => out = <<>>
    /\ (evt.first = "offline" /\ evt.rec = "online") =>
         out = <<[type |-> "ContactOnline", chat |-> NoChat,
                  senderName |-> NameOf(evt.user), text |-> ""]>>
    /\ (evt.first = "online" /\ evt.rec = "offline") =>
         out = <<[type |-> "ContactOffline", chat |-> NoChat,
                  senderName |-> NameOf(evt.user), text |-> ""]>>

\* C6 witness (scenario D): bob's first payload was offline, the second is online.
C6_Witness ==
  /\ evt.kind = "presence" /\ evt.user = "bob"
  /\ evt.first = "offline" /\ evt.rec = "online"
  /\ out = <<[type |-> "ContactOnline", chat |-> NoChat, senderName |-> "Bob", text |-> ""]>>

\* C7: a presence record for a contact whose baseline was taken emits
\* ContactOnline for offline -> online, ContactOffline for online -> offline,
\* and nothing otherwise.
C7_TransitionByCachedValue ==
  (evt.kind = "presence" /\ evt.seen) =>
    out = CASE evt.prev = "offline" /\ evt.rec = "online" ->
                 <<[type |-> "ContactOnline", chat |-> NoChat,
                    senderName |-> NameOf(evt.user), text |-> ""]>>
            [] evt.prev = "online" /\ evt.rec = "offline" ->
                 <<[type |-> "ContactOffline", chat |-> NoChat,
                    senderName |-> NameOf(evt.user), text |-> ""]>>
            [] OTHER -> <<>>

\* C7 witness: carol, seen several times already, goes from online to offline.
C7_Witness ==
  /\ evt.kind = "presence" /\ evt.user = "carol" /\ evt.seen /\ evt.first = "later"
  /\ evt.prev = "online" /\ evt.rec = "offline"
  /\ out = <<[type |-> "ContactOffline", chat |-> NoChat, senderName |-> "Carol", text |-> ""]>>

\* C8: the first record after a contact was dropped and subscribed again is a
\* baseline again: it emits nothing whatever value was cached before the
\* removal, and the contact counts as seen afterwards.
C8_ResubscribeIsBaseline ==
  (evt.kind = "presence" /\ evt.first = "none" /\ evt.prev # "absent" /\ evt.rec # "null") =>
    /\ out = <<>>
    /\ ~evt.seen
    /\ evt.user \in presenceInitialStates

\* C8 witness: bob was cached offline, left, came back, and is online now.
C8_Witness ==
  /\ evt.kind = "presence" /\ evt.user = "bob" /\ evt.first = "none"
  /\ evt.prev = "offline" /\ evt.rec = "online"
  /\ out = <<>>

\* C9 as stated: every published list is sorted descending by updatedAt with
\* equal timestamps in id order.
C9_SortedTiesById ==
  \A i, j \in 1..Len(chats) :
    i < j => \/ chats[i].updatedAt > chats[j].updatedAt
             \/ (chats[i].updatedAt = chats[j].updatedAt /\ chats[i].id < chats[j].id)

\* C9 amended: every published list is sorted descending by updatedAt, and
\* conversations with equal updatedAt keep the order in which the listener
\* first cached them (the insertion order of chatData).
C9_SortedTiesByInsertion ==
  /\ \A i, j \in 1..Len(chats) : i < j => chats[i].updatedAt >= chats[j].updatedAt
  /\ evt.kind = "chat" =>
       /\ Ids(chats) = Ids(subs[evt.sub].chatData)
       /\ \A i, j \in 1..Len(chats) :
            (i < j /\ chats[i].updatedAt = chats[j].updatedAt) =>
              Pos(subs[evt.sub].chatData, chats[i].id) < Pos(subs[evt.sub].chatData, chats[j].id)

\* C9 witness: a tie published with conv200 ahead of conv100.
C9_Witness ==
  /\ evt.kind = "chat" /\ Len(chats) = 2
  /\ chats[1].id = 200 /\ chats[2].id = 100
  /\ chats[1].updatedAt = chats[2].updatedAt

\* C10: an index snapshot that no longer lists a conversation releases its
\* listener and drops its cached record without entering the error state, and
\* every list the listener aggregates afterwards holds tracked ids only.
C10_RemovedFromIndex ==
  [][/\ evt'.kind = "index" =>
          /\ subs'[evt'.sub].chatSubscriptions \cap (subs[evt'.sub].chatSubscriptions \ evt'.ids) = {}
          /\ Ids(subs'[evt'.sub].chatData) \cap (subs[evt'.sub].chatSubscriptions \ evt'.ids) = {}
          /\ connectionState' = "error" => connectionState = "error"
     /\ Published(evt') => Ids(chats') \subseteq subs'[evt'.sub].chatSubscriptions]_vars

\* C10 witness (scenario E): conv100 was published in this session, has left
\* the index, and the aggregation triggered by conv200 lists conv200 only.
C10_Witness ==
  /\ evt.kind = "chat" /\ evt.chat = 200
  /\ \E t \in Times : <<100, t>> \in processed
  /\ subs[evt.sub].chatSubscriptions = {200}
  /\ Ids(chats) = {200}
  /\ connectionState = "connected"

\* C11: when an index update has been processed, the conversations with a
\* per-conversation listener are exactly the ids of that update, each with one
\* listener; the cached record of every id that left is dropped, and an id
\* listed before and after keeps its cached record.
C11_SubscriptionsMatchIndex ==
  [][evt'.kind = "index" =>
       /\ subs'[evt'.sub].chatSubscriptions = evt'.ids
       /\ \A c \in ChatIds :
            subs'[evt'.sub].listeners[c] = IF c \in evt'.ids THEN 1 ELSE 0
       /\ Ids(subs'[evt'.sub].chatData) = Ids(subs[evt'.sub].chatData) \cap evt'.ids
       /\ \A c \in Ids(subs'[evt'.sub].chatData) :
            ChatOf(subs'[evt'.sub].chatData, c) = ChatOf(subs[evt'.sub].chatData, c)]_vars

\* C11 witness: conv100 and conv200 were both published, then an index update
\* lists conv200 only: conv200 keeps its listener and record, conv100 is gone.
C11_Witness ==
  /\ evt.kind = "index" /\ evt.ids = {200}
  /\ \E t \in Times : <<100, t>> \in processed
  /\ subs[evt.sub].chatSubscriptions = {200}
  /\ subs[evt.sub].listeners[200] = 1 /\ subs[evt.sub].listeners[100] = 0
  /\ Ids(subs[evt.sub].chatData) = {200}

\* C12: when a conversation list has been processed, the contacts with an
\* open presence listener are exactly the participants of the listed
\* conversations other than the logged-in user, and a contact without a
\* listener has neither a cached presence record nor a seen-once marker.
C12_PresenceMatchesSnapshot ==
  Published(evt) =>
    /\ presenceUnsubscribes = OtherUserIds(chats)
    /\ \A u \in Contacts \ presenceUnsubscribes :
         /\ otherUserPresence[u] = "absent"
         /\ u \notin presenceInitialStates

\* C13: connectionState leaves "error" only in a step that calls
\* initChatsListener.
C13_ErrorIsTerminal ==
  [][(connectionState = "error" /\ connectionState' # "error") =>
       pendingInit' = pendingInit + 1]_vars

\* C14: connectionState starts as "idle" and changes only from idle to
\* connecting, from connecting to connected, from connecting to error, or to
\* connecting in a step that calls initChatsListener.
C14_ConnectionTransitions ==
  [][connectionState' # connectionState =>
       \/ <<connectionState, connectionState'>> \in
            {<<"idle", "connecting">>, <<"connecting", "connected">>,
             <<"connecting", "error">>}
       \/ (connectionState' = "connecting" /\ pendingInit' = pendingInit + 1)]_vars

C16_CleanupReleasesAll ==
  [][evt'.kind = "cleanup" =>
       /\ \A s \in SubIds :
            /\ ~subs'[s].open /\ ~subs'[s].index
            /\ subs'[s].chatSubscriptions = {}
            /\ subs'[s].chatData = <<>>
       /\ presenceUnsubscribes' = {}
       /\ \A u \in Contacts : otherUserPresence'[u] = "absent"
       /\ presenceInitialStates' = {}
       /\ \A c \in ChatIds : notifiedMessageTimestamps'[c] = 0
       /\ (chatsUnsubscribe = NoSub /\ presenceUnsubscribes = {}) => subs' = subs]_vars

\* C17: a callback that runs after its listener was released changes neither
\* the conversation caches, the published list, the presence snapshot, the
\* message snapshot, lastNotified nor connectionState.
C17_LateCallbackDropped ==
  [][(inflight # NoCallback /\ inflight' = NoCallback /\ ~StillSubscribed(inflight)) =>
       UNCHANGED <<subs, chats, otherUserPresence, presenceInitialStates, messages,
                   loadingMessages, notifiedMessageTimestamps, connectionState>>]_vars

\* C18: at most one index listener is registered at any time, and when the
\* last call was cleanupChatsListener and no call of initChatsListener is
\* suspended, no index, per-conversation or presence listener is registered.
C18_NoListenerOutlivesSession ==
  /\ Cardinality({s \in SubIds : subs[s].open /\ subs[s].index}) <= 1
  /\ (loggedInUserId = NoUser /\ pendingInit = 0) =>
       /\ \A s \in SubIds : ~subs[s].open
       /\ presenceUnsubscribes = {}

\* C19: at most one message listener is registered at any time, and when
\* selectChat has run the only one registered is the one it opened for the
\* conversation it was called with.
C19_OneMessageSubscription ==
  /\ Cardinality({m \in MsgSubIds : msgSubs[m].open}) <= 1
  /\ evt.kind = "select" =>
       /\ {m \in MsgSubIds : msgSubs[m].open} = {messagesUnsubscribe}
       /\ msgSubs[messagesUnsubscribe].chat = evt.chat

\* C19 witness: conv200 is selected while the listener for conv100 is
\* registered; afterwards the listener for conv200 is the only one.
C19_Witness ==
  /\ evt.kind = "select" /\ evt.chat = 200 /\ evt.ids = {100}
  /\ {msgSubs[m].chat : m \in {n \in MsgSubIds : msgSubs[n].open}} = {200}

\* C20: while the message listener selectChat opened is registered,
\* loadingMessages is true exactly as long as that listener has not delivered
\* its first snapshot.
C20_LoadingUntilFirstSnapshot ==
  messagesUnsubscribe # NoSub =>
    (loadingMessages <=> ~msgSubs[messagesUnsubscribe].delivered)

\* C20 witness: the first snapshot of the selected conversation has arrived
\* and loadingMessages is false.
C20_Witness ==
  /\ evt.kind = "messages" /\ ~evt.seen
  /\ messagesUnsubscribe = evt.sub /\ msgSubs[evt.sub].delivered
  /\ Len(messages) = 2
  /\ ~loadingMessages

\* C21: a published message snapshot holds exactly the messages of the raw
\* snapshot, a message without a usable timestamp before every message that
\* has one, and the others in ascending order of timestamp.
C21_MessagesSorted ==
  evt.kind = "messages" =>
    /\ Len(messages) = Len(evt.raw)
    /\ Range(messages) = Range(evt.raw)
    /\ \A i, j \in 1..Len(messages) :
         i < j => \/ messages[i].timestamp = NoTime
                  \/ /\ messages[j].timestamp # NoTime
                     /\ messages[i].timestamp <= messages[j].timestamp

\* C21 witness: three messages arrive newest first with the last one lacking
\* a timestamp; it is published first, the others oldest first.
C21_Witness ==
  /\ evt.kind = "messages"
  /\ evt.raw = <<Msg(100, 1, 2), Msg(100, 2, 1), Msg(100, 3, NoTime)>>
  /\ messages = <<Msg(100, 3, NoTime), Msg(100, 2, 1), Msg(100, 1, 2)>>

\* The cache entry that stands for a presence record: none for a missing one.
CachedAs(rec) == IF rec = "null" THEN "absent" ELSE rec

\* C27: after a presence update for a contact has been processed, the cached
\* presence of that contact is the record just received, a missing record
\* included.
C27_CacheEqualsRecord ==
  evt.kind = "presence" => otherUserPresence[evt.user] = CachedAs(evt.rec)

\* C29: selecting a conversation and clearing the selection leave the
\* published list, the presence snapshot, the index, per-conversation and
\* presence listeners, the notified timestamps and the connection state as
\* they were.
C29_SelectionLeavesStore ==
  [][evt'.kind \in {"select", "clear"} =>
       UNCHANGED <<chats, otherUserPresence, subs, chatsUnsubscribe,
                   presenceUnsubscribes, notifiedMessageTimestamps,
                   connectionState>>]_vars

\* C29 witness: a selection was cleared while a list is published, a
\* contact's presence is tracked and a notified timestamp is recorded.
C29_Witness ==
  /\ evt.kind = "clear"
  /\ evt.chat # NoChat
  /\ chats # <<>>
  /\ presenceUnsubscribes # {}
  /\ \E c \in ChatIds : notifiedMessageTimestamps[c] > 0

\* C30: after an index snapshot has been processed the published list holds
\* only conversations of that index.
C30_ListWithinIndex ==
  evt.kind = "index" => Ids(chats) \subseteq evt.ids

\* C28: a conversation record without a numeric updatedAt or without
\* participants never appears in the published conversation list.
C28_MalformedExcluded ==
  \A i \in 1..Len(chats) :
    chats[i].updatedAt # NoTime /\ chats[i].participants # {}

AllReleased ==
  /\ \A s \in SubIds : ~subs[s].open
  /\ \A m \in MsgSubIds : ~msgSubs[m].open
  /\ presenceUnsubscribes = {}
  /\ ~presenceCleanup

\* C23: when the window has been destroyed, and when sign-out has been
\* issued, every listener has been released.
C23_ReleasedBeforeExit ==
  (closePc = "destroyed" \/ signOutPc = "issued") => AllReleased

\* C24: after a close request with a logged-in user the window is eventually
\* destroyed, and after a sign-out request sign-out is eventually issued
\* unless the window is destroyed first.
C24_ExitNotBlocked ==
  /\ (closePc = "cancel") ~> (closePc = "destroyed")
  /\ (signOutPc = "cancel") ~> (signOutPc = "issued" \/ closePc = "destroyed")

\* C25: every call of the connectivity listener with a connection starts a
\* registration of the disconnect fallback; an online write is issued only
\* in the step in which such a registration succeeds; a step in which a
\* registration fails issues none.
C25_OnlineAfterFallback ==
  [][/\ (evt'.kind = "connectivity" /\ evt'.active)
          => presenceOps'.registering = presenceOps.registering + 1
     /\ presenceOps'.writing > presenceOps.writing
          => /\ evt'.kind = "registered"
             /\ onDisconnectArmed'
             /\ presenceOps'.registering = presenceOps.registering - 1
     /\ evt'.kind = "registerFailed"
          => presenceOps'.writing = presenceOps.writing]_vars

\* C25 witness: connectivity was established twice; the registration of one
\* connection has just succeeded and its online write is pending, the
\* registration of the other is still pending.
C25_Witness ==
  /\ evt.kind = "registered"
  /\ onDisconnectArmed
  /\ presenceOps = [registering |-> 1, writing |-> 1]
  /\ authUser # NoUser

C31_SoundNeedsKnownSender ==
  [][Published(evt') =>
       \A i \in 1..Len(chats') :
         SoundsFor(out', chats'[i].id) > 0 =>
           /\ chats'[i].updatedAt > notifiedMessageTimestamps[chats'[i].id]
           /\ chats'[i].lastMessageSenderId \notin {NoSender, loggedInUserId}]_vars

\* C32: the lastNotified entry of a conversation is lowered or deleted only
\* by a step that calls initChatsListener or cleanupChatsListener.
C32_LastNotifiedMonotone ==
  [][(\E c \in ChatIds : notifiedMessageTimestamps'[c] < notifiedMessageTimestamps[c])
       => (pendingInit' = pendingInit + 1 \/ evt'.kind \in {"cleanup", "signOut"})]_vars

\* C32 witness: a snapshot whose record is older than the conversation's
\* lastNotified has been processed and the entry is still the later one.
C32_Witness ==
  /\ evt.kind = "chat" /\ ~evt.initial
  /\ \E i \in 1..Len(chats) :
       /\ chats[i].id = evt.chat
       /\ chats[i].updatedAt < notifiedMessageTimestamps[evt.chat]

\* The conversations that have a registered message listener.
OpenMessageChats == {msgSubs[m].chat : m \in {n \in MsgSubIds : msgSubs[n].open}}

\* C33: a conversation is selected exactly when a message listener is
\* registered, and the listener is for the selected conversation.
C33_SelectionMatchesSubscription ==
  /\ currentChatId # NoChat <=> OpenMessageChats # {}
  /\ OpenMessageChats \subseteq {currentChatId}

\* C34: the published messages are none or are all messages of the selected
\* conversation.
C34_MessagesOfSelectedChat ==
  \A i \in 1..Len(messages) : messages[i].chat = currentChatId

\* C34 witness: conv200 has just been selected while the listener of conv100
\* was registered; nothing is published until its own messages arrive.
C34_Witness ==
  /\ evt.kind = "select" /\ evt.chat = 200 /\ evt.ids = {100}
  /\ currentChatId = 200
  /\ messages = <<>>
  /\ loadingMessages

\* C35: while loadingMessages is true a message listener is registered that
\* has not delivered its first snapshot.
C35_LoadingHasPendingListener ==
  loadingMessages => \E m \in MsgSubIds : msgSubs[m].open /\ ~msgSubs[m].delivered

DirectChats(P) == {r \in dbChats : ~r.isGroup /\ r.participants = P}
ReturnedCalls == {k \in CallIds : createCalls[k].pc = "done" /\ createCalls[k].kind = "direct"}

\* C37: whatever createChat calls were made for alice and bob, at most one
\* direct chat of exactly the two exists and every call that returned has
\* returned the id of that chat, never that of a group chat.
C37_OneDirectChat ==
  /\ Cardinality(DirectChats(Pair)) <= 1
  /\ \A k \in ReturnedCalls : createCalls[k].ret \in {r.id : r \in DirectChats(Pair)}

\* C38: once the user has stopped typing, the typing flag of the record
\* becomes false and stays false, whether the timer expired or a send was
\* attempted, and whether or not the send succeeded.
C38_TypingFlagCleared == <>[](~typingFlag)

\* C39: a missing presence record for a tracked contact emits nothing and
\* leaves the seen-once marker as it was, so that a record that follows a
\* missing first one finds no marker, and a record that finds no marker is
\* taken as the baseline: it sets the marker and emits nothing.
C39_NullIsNotBaseline ==
  [][evt'.kind = "presence" =>
       /\ evt'.rec = "null" =>
            /\ out' = <<>>
            /\ (evt'.user \in presenceInitialStates') = evt'.seen
       /\ (evt'.rec # "null" /\ evt'.first = "null") => ~evt'.seen
       /\ (evt'.rec # "null" /\ ~evt'.seen) =>
            /\ out' = <<>>
            /\ evt'.user \in presenceInitialStates']_vars

\* C39 witness: bob's first payload was a missing record, the next one says
\* online: it is the baseline and nothing is emitted.
C39_Witness ==
  /\ evt.kind = "presence" /\ evt.user = "bob"
  /\ evt.first = "null" /\ evt.rec = "online" /\ ~evt.seen
  /\ "bob" \in presenceInitialStates
  /\ otherUserPresence["bob"] = "online"
  /\ out = <<>>

====
